---- MODULE Spec2Model ----
(***************************************************************************)
(* Model of back.py: the feature extractor analyze_audio_features, the     *)
(* rule-based scorer compute_environmental_score and the /analyze handler. *)
(*                                                                         *)
(* Numbers.  A floating-point feature value is modelled as an exact        *)
(* rational [n |-> numerator, d |-> denominator] with d > 0, and every     *)
(* threshold test of the scorer is a cross-multiplied integer comparison,  *)
(* so that a value lying exactly on a threshold is told apart from its     *)
(* neighbours.  Samples are integers in units of 4e-6, spectral magnitudes *)
(* in units of 1e-6 and spectral energies in units of 1e-12, which makes   *)
(* the guard 1e-12 of the energy ratios exactly one energy unit.  A decoded *)
(* array is a sequence of frames, one sample per channel in each frame.    *)
(***************************************************************************)
EXTENDS Integers, Sequences, FiniteSets

VARIABLES waveform, sr, features, error, result, response, pc

vars == <<waveform, sr, features, error, result, response, pc>>

----------------------------------------------------------------------------
(* Rationals *)

R(n, d) == [n |-> n, d |-> d]

\* x > y and x < y on rationals with positive denominators
Gt(x, y) == x.n * y.d > y.n * x.d

Lt(x, y) == x.n * y.d < y.n * x.d

Max(a, b) == IF a >= b THEN a ELSE b

Min(a, b) == IF a <= b THEN a ELSE b

----------------------------------------------------------------------------
(* compute_environmental_score *)

\* HUMPBACK WHALE SIGNATURE
humpback_score(f) ==
    (IF Gt(f.lowRatio, R(6, 10)) THEN 10 ELSE 0)
  + (IF Gt(f.lowRatio, R(5, 10)) THEN 6 ELSE 0)
  + (IF Lt(f.flatness, R(2, 10)) THEN 12
     ELSE IF Lt(f.flatness, R(3, 10)) THEN 8 ELSE 0)
  + (IF Gt(f.lowPeakiness, R(35, 10)) THEN 10
     ELSE IF Gt(f.lowPeakiness, R(25, 10)) THEN 6 ELSE 0)
  + (IF Lt(f.centroid, R(1000, 1)) THEN 8
     ELSE IF Lt(f.centroid, R(1500, 1)) THEN 5 ELSE 0)
  + (IF Lt(f.midRatio, R(3, 10)) THEN 5 ELSE 0)

\* ORCA/KILLER WHALE SIGNATURE
orca_score(f) ==
    (IF Lt(R(15, 100), f.highRatio) /\ Lt(f.highRatio, R(4, 10)) THEN 10 ELSE 0)
  + (IF Lt(R(25, 100), f.flatness) /\ Lt(f.flatness, R(55, 100)) THEN 8 ELSE 0)
  + (IF Lt(R(25, 100), f.midRatio) /\ Lt(f.midRatio, R(5, 10)) THEN 8 ELSE 0)
  + (IF Lt(R(2, 10), f.lowRatio) /\ Lt(f.lowRatio, R(6, 10)) THEN 7 ELSE 0)
  + (IF Lt(R(1000, 1), f.centroid) /\ Lt(f.centroid, R(3000, 1)) THEN 8 ELSE 0)
  + (IF Lt(R(15, 10), f.lowPeakiness) /\ Lt(f.lowPeakiness, R(4, 1)) THEN 5 ELSE 0)
  + (IF Lt(R(1, 100), f.rms) /\ Lt(f.rms, R(8, 100)) THEN 5 ELSE 0)

\* Critical boat indicators
is_boat(f) ==
    \/ Gt(f.flatness, R(5, 10))
    \/ (Gt(f.centroid, R(2000, 1)) /\ Lt(f.lowPeakiness, R(25, 10)))
    \/ (Gt(f.midRatio, R(4, 10)) /\ Gt(f.flatness, R(45, 100)))
    \/ Gt(f.rms, R(8, 100))

\* the penalty tiers evaluated inside "if is_boat:"
boat_penalties_drop_rms(f) ==
    (IF Gt(f.flatness, R(7, 10)) THEN -60
     ELSE IF Gt(f.flatness, R(6, 10)) THEN -50
     ELSE IF Gt(f.flatness, R(5, 10)) THEN -40
     ELSE IF Gt(f.flatness, R(4, 10)) THEN -30 ELSE 0)
  + (IF Gt(f.centroid, R(4000, 1)) THEN -40
     ELSE IF Gt(f.centroid, R(3000, 1)) THEN -35
     ELSE IF Gt(f.centroid, R(2500, 1)) THEN -30
     ELSE IF Gt(f.centroid, R(2000, 1)) THEN -20 ELSE 0)
  + (IF Lt(f.lowPeakiness, R(15, 10)) THEN -30
     ELSE IF Lt(f.lowPeakiness, R(20, 10)) THEN -25
     ELSE IF Lt(f.lowPeakiness, R(25, 10)) THEN -15 ELSE 0)
  + (IF Gt(f.midRatio, R(5, 10)) THEN -30
     ELSE IF Gt(f.midRatio, R(4, 10)) THEN -20 ELSE 0)
  + (IF Gt(f.highRatio, R(35, 100)) THEN -25 ELSE 0)

boat_penalties(f) ==
    (IF Gt(f.flatness, R(7, 10)) THEN -60
     ELSE IF Gt(f.flatness, R(6, 10)) THEN -50
     ELSE IF Gt(f.flatness, R(5, 10)) THEN -40
     ELSE IF Gt(f.flatness, R(4, 10)) THEN -30 ELSE 0)
  + (IF Gt(f.centroid, R(4000, 1)) THEN -40
     ELSE IF Gt(f.centroid, R(3000, 1)) THEN -35
     ELSE IF Gt(f.centroid, R(2500, 1)) THEN -30
     ELSE IF Gt(f.centroid, R(2000, 1)) THEN -20 ELSE 0)
  + (IF Lt(f.lowPeakiness, R(15, 10)) THEN -30
     ELSE IF Lt(f.lowPeakiness, R(20, 10)) THEN -25
     ELSE IF Lt(f.lowPeakiness, R(25, 10)) THEN -15 ELSE 0)
  + (IF Gt(f.midRatio, R(5, 10)) THEN -30
     ELSE IF Gt(f.midRatio, R(4, 10)) THEN -20 ELSE 0)
  + (IF Gt(f.highRatio, R(35, 100)) THEN -25 ELSE 0)
  + (IF Gt(f.rms, R(15, 100)) THEN -30
     ELSE IF Gt(f.rms, R(10, 100)) THEN -20
     ELSE IF Gt(f.rms, R(8, 100)) THEN -10 ELSE 0)

\* BOAT/ENGINE SIGNATURE
boat_score(f) == IF is_boat(f) THEN boat_penalties(f) ELSE 0

\* Cap score at 30 if boat detected
cap_boat_missing(isBoat, score) == score

cap_boat(isBoat, score) ==
    IF isBoat /\ score > 30 THEN Min(30, score) ELSE score

\* Cap marine animal scores (not 100)
cap_marine_missing(isBoat, score) == score

cap_marine(isBoat, score) ==
    IF ~isBoat /\ score > 95 THEN 95 ELSE score

\* int(np.clip(score, lo, hi)) on an integer score
clip_upper_only(score, lo, hi) == IF score > hi THEN hi ELSE score

clip(score, lo, hi) ==
    IF score < lo THEN lo ELSE IF score > hi THEN hi ELSE score

High == "High: Strong marine mammal vocalizations detected (healthy environment)."

Medium == "Medium: Moderate marine activity or mixed signals with some noise."

Low == "Low: Significant pollution (boat/engine noise) or minimal biological activity."

\* Determine note based on ranges
note_for_strict(score) ==
    IF score > 80 THEN High ELSE IF score > 40 THEN Medium ELSE Low

note_for(score) ==
    IF score >= 80 THEN High ELSE IF score >= 40 THEN Medium ELSE Low

compute_environmental_score(f) ==
    LET humpback == humpback_score(f)
        orca     == orca_score(f)
        isBoat   == is_boat(f)
        boat     == boat_score(f)
        animal   == Max(humpback, orca)
        combined == 50 + animal + boat
        score    == clip(cap_marine(isBoat, cap_boat(isBoat, combined)), 0, 100)
    IN  [score         |-> score,
         note          |-> note_for(score),
         humpbackScore |-> humpback,
         orcaScore     |-> orca,
         boatPenalty   |-> boat,
         isBoat        |-> isBoat]

----------------------------------------------------------------------------
(* analyze_audio_features *)

\* Take first ~16k samples for analysis
SAMPLE_COUNT == 16384

\* the guard 1e-12 added to the summed energy, in energy units of 1e-12
EPS_ENERGY == 1

truncate(w) == SubSeq(w, 1, Min(Len(w), SAMPLE_COUNT))

\* np.sum / np.mean numerator: pairwise summation of f[lo..hi]
RECURSIVE Sum(_, _, _)
Sum(f, lo, hi) ==
    IF lo > hi THEN 0
    ELSE IF lo = hi THEN f[lo]
    ELSE LET m == (lo + hi) \div 2 IN Sum(f, lo, m) + Sum(f, m + 1, hi)

\* Convert to mono if stereo: a frame of the array holds one sample per
\* channel, and an array of more than one channel is averaged frame by frame
to_mono(w) ==
    [i \in 1..Len(w) |->
        IF Len(w[i]) > 1 THEN Sum(w[i], 1, Len(w[i])) \div Len(w[i]) ELSE w[i][1]]

\* the mono frame that is analysed
frame_of(w) == truncate(to_mono(w))

\* np.max of f[lo..hi], lo <= hi
RECURSIVE MaxOf(_, _, _)
MaxOf(f, lo, hi) ==
    IF lo = hi THEN f[lo]
    ELSE LET m == (lo + hi) \div 2 IN Max(MaxOf(f, lo, m), MaxOf(f, m + 1, hi))

\* floor of the square root: the largest r in lo..hi with r * r <= n
RECURSIVE IsqrtIn(_, _, _)
IsqrtIn(n, lo, hi) ==
    IF lo = hi THEN lo
    ELSE LET m == (lo + hi + 1) \div 2
         IN  IF m * m <= n THEN IsqrtIn(n, m, hi) ELSE IsqrtIn(n, lo, m - 1)

Isqrt(n) == IsqrtIn(n, 0, 46340)

\* rms = sqrt(mean(waveform ** 2)), floor-rounded to 1e-6 (a sample is 4e-6)
rms_of(w) ==
    LET sq == [i \in 1..Len(w) |-> w[i] * w[i]]
    IN  R(Isqrt((16 * Sum(sq, 1, Len(w))) \div Len(w)), 1000000)

\* 4 * np.hanning(M)[i-1]: ones(1) for M = 1, else 2 - 2 cos(2 pi (i-1)/(M-1)).
\* The interior values are rational only for M <= 4; longer windows are used
\* on zero samples only, where the product does not depend on them.
hanning4(M, i) ==
    CASE M = 1 -> 4
      [] M > 1 /\ (i = 1 \/ i = M) -> 0
      [] M = 3 /\ i = 2 -> 4
      [] M = 4 /\ i \in {2, 3} -> 3

\* windowed = waveform * window, in units of 1e-6
windowed_of(w) ==
    [i \in 1..Len(w) |-> IF w[i] = 0 THEN 0 ELSE w[i] * hanning4(Len(w), i)]

RECURSIVE NextPow2(_, _)
NextPow2(n, p) == IF p >= n THEN p ELSE NextPow2(n, 2 * p)

\* fft_size = 2 ** int(np.ceil(np.log2(n))) for n >= 1
fft_size(n) == NextPow2(n, 1)

\* Pad to next power of 2
padded_of(w) ==
    LET x == windowed_of(w)
    IN  [i \in 1..fft_size(Len(w)) |-> IF i <= Len(w) THEN x[i] ELSE 0]

\* real and imaginary part of exp(-2 pi i j / 4)
Cos4(j) == CASE j % 4 = 0 -> 1 [] j % 4 = 1 -> 0 [] j % 4 = 2 -> -1 [] j % 4 = 3 -> 0

Sin4(j) == CASE j % 4 = 0 -> 0 [] j % 4 = 1 -> -1 [] j % 4 = 2 -> 0 [] j % 4 = 3 -> 1

\* |np.fft.rfft(padded)[k]| ** 2 for the sizes that divide 4, where all
\* twiddle factors are 1, -1, i, -i and the transform is integral.
rfft_energy(p, k) ==
    LET N  == Len(p)
        re == Sum([i \in 1..N |-> p[i] * Cos4(k * (i - 1) * (4 \div N))], 1, N)
        im == Sum([i \in 1..N |-> p[i] * Sin4(k * (i - 1) * (4 \div N))], 1, N)
    IN  CASE N \in {1, 2, 4} -> re * re + im * im

\* mags, energy and the frequency grid of the padded frame.  Bin k has
\* frequency k * sr / N; mags are floor-rounded to 1e-6.  A frame of zero
\* samples stays zero under the window and the padding, and the transform
\* of the zero vector is the zero vector for every size.
spectrum(w) ==
    LET N == fft_size(Len(w))
        K == N \div 2
    IN  IF \A i \in 1..Len(w) : w[i] = 0
        THEN [N |-> N, K |-> K, energy |-> [k \in 0..K |-> 0],
              mags |-> [k \in 0..K |-> 0]]
        ELSE LET p      == padded_of(w)
                 energy == [k \in 0..K |-> rfft_energy(p, k)]
             IN  [N |-> N, K |-> K, energy |-> energy,
                  mags |-> [k \in 0..K |-> Isqrt(energy[k])]]

\* Energy in frequency bands: freqs < 300, 300 <= freqs < 3000, freqs >= 3000
low_mask(k, rate, N) == k * rate < 300 * N

mid_mask_open(k, rate, N) == k * rate > 300 * N /\ k * rate < 3000 * N

mid_mask(k, rate, N) == k * rate >= 300 * N /\ k * rate < 3000 * N

high_mask(k, rate, N) == k * rate >= 3000 * N

in_mask(band, k, rate, N) ==
    CASE band = "low"  -> low_mask(k, rate, N)
      [] band = "mid"  -> mid_mask(k, rate, N)
      [] band = "high" -> high_mask(k, rate, N)

\* np.sum(energy[mask])
band_energy(sp, rate, band) ==
    Sum([k \in 0..sp.K |-> IF in_mask(band, k, rate, sp.N) THEN sp.energy[k] ELSE 0],
        0, sp.K)

total_energy(sp) == Sum(sp.energy, 0, sp.K) + EPS_ENERGY

\* centroid = sum(freqs * mags) / (sum(mags) + 1e-12).  The guard is below
\* the magnitude resolution: it decides the quotient only when sum(mags) = 0.
centroid_of(sp, rate) ==
    LET sm == Sum(sp.mags, 0, sp.K)
    IN  IF sm = 0 THEN R(0, 1)
        ELSE R(rate * Sum([k \in 0..sp.K |-> k * sp.mags[k]], 0, sp.K), sp.N * sm)

\* compute_spectral_flatness: exp(mean(log(max(mags, eps)))) / (mean + eps),
\* clipped to [0, 1].  On the zero spectrum it is eps / (eps + eps) up to the
\* rounding of exp, log and mean: just below, at, or just above 0.5.  On any
\* other spectrum the result is some value of the clip range.
FlatnessLevels == {R(p, 100) : p \in {0, 20, 25, 28, 30, 40, 45, 50, 52, 55, 60, 70, 100}}

compute_spectral_flatness(mags, K) ==
    IF \A k \in 0..K : mags[k] = 0
    THEN {R(499999, 1000000), R(1, 2), R(500001, 1000000)}
    ELSE FlatnessLevels

\* Low frequency peakiness: max / (mean + 1e-12) over the low band, 1.0 when
\* the low band has no bin
low_peakiness_unguarded(sp, rate) ==
    LET low   == {k \in 0..sp.K : low_mask(k, rate, sp.N)}
        lmags == [k \in 0..sp.K |-> IF k \in low THEN sp.mags[k] ELSE 0]
        lsum  == Sum(lmags, 0, sp.K)
    IN  IF low # {} /\ lsum > 0
        THEN R(MaxOf(lmags, 0, sp.K) * Cardinality(low), lsum)
        ELSE R(1, 1)

low_peakiness_of(sp, rate) ==
    LET low   == {k \in 0..sp.K : low_mask(k, rate, sp.N)}
        lmags == [k \in 0..sp.K |-> IF k \in low THEN sp.mags[k] ELSE 0]
        lsum  == Sum(lmags, 0, sp.K)
    IN  IF low # {}
        THEN IF lsum = 0 THEN R(0, 1)
             ELSE R(MaxOf(lmags, 0, sp.K) * Cardinality(low), lsum)
        ELSE R(1, 1)

\* lines 33-87 on a non-empty mono frame w; flat is the value returned by
\* compute_spectral_flatness
extract_features(w, rate, flat) ==
    LET sp  == spectrum(w)
        tot == total_energy(sp)
    IN  [rms          |-> rms_of(w),
         lowRatio     |-> R(band_energy(sp, rate, "low"), tot),
         midRatio     |-> R(band_energy(sp, rate, "mid"), tot),
         highRatio    |-> R(band_energy(sp, rate, "high"), tot),
         centroid     |-> centroid_of(sp, rate),
         flatness     |-> flat,
         lowPeakiness |-> low_peakiness_of(sp, rate)]

NoFeatures ==
    [rms |-> R(0, 1), lowRatio |-> R(0, 1), midRatio |-> R(0, 1),
     highRatio |-> R(0, 1), centroid |-> R(0, 1), flatness |-> R(0, 1),
     lowPeakiness |-> R(0, 1)]

\* the values compute_spectral_flatness can return on the frame of w
flatness_outcomes(w) ==
    IF Len(frame_of(w)) = 0 THEN {R(0, 1)}
    ELSE LET sp == spectrum(frame_of(w)) IN compute_spectral_flatness(sp.mags, sp.K)

\* On an empty frame np.mean gives nan and np.hanning(0) an empty window, both
\* without raising; int(np.ceil(np.log2(0))) = int(-inf) raises OverflowError.
analyze_audio_features_zeroed(w, rate, flat) ==
    IF Len(frame_of(w)) = 0
    THEN [raised |-> FALSE, error |-> "", features |-> NoFeatures]
    ELSE [raised |-> FALSE, error |-> "",
          features |-> extract_features(frame_of(w), rate, flat)]

analyze_audio_features(w, rate, flat) ==
    IF Len(frame_of(w)) = 0
    THEN [raised |-> TRUE, error |-> "OverflowError", features |-> NoFeatures]
    ELSE [raised |-> FALSE, error |-> "",
          features |-> extract_features(frame_of(w), rate, flat)]

----------------------------------------------------------------------------
(* Inputs *)

Pct(S) == {R(p, 100) : p \in S}

\* One value per behaviour class of each feature: the thresholds that two
\* rules test with opposite strictness, and a value (on a threshold where
\* one exists in the class) of every interval between the thresholds.
RmsLevels == Pct({0, 5, 8, 10, 15, 20})

LowRatioLevels == Pct({0, 37, 55, 60, 70})

MidRatioLevels == Pct({0, 28, 40, 45, 50, 60})

HighRatioLevels == Pct({0, 35, 38, 40})

CentroidLevels == {R(c, 1) : c \in {0, 1000, 1200, 1500, 2000, 2500, 2800, 3000, 4000, 5000}}

LowPeakinessLevels == Pct({0, 150, 180, 200, 250, 350, 380, 400})

FeatureVectors ==
    [rms : RmsLevels, lowRatio : LowRatioLevels, midRatio : MidRatioLevels,
     highRatio : HighRatioLevels, centroid : CentroidLevels,
     flatness : FlatnessLevels, lowPeakiness : LowPeakinessLevels]

\* sample amplitudes, in units of 4e-6
MaxAmp == 1

AmpStep == 150

Samples == {k * AmpStep : k \in -MaxAmp..MaxAmp} \cup {1}

Lengths == {0, 1, 2, 3, 4}

StereoLengths == {1, 2}

MonoFrames == {<<s>> : s \in Samples}

\* two channels whose mean is a whole number of sample units
StereoFrames == {f \in Samples \X Samples : (f[1] + f[2]) % 2 = 0}

Silence == [i \in 1..SAMPLE_COUNT |-> <<0>>]

\* decoded arrays: every short mono array, every shorter stereo array, and
\* 16384 mono samples of silence
Waveforms ==
    UNION {[1..n -> MonoFrames] : n \in Lengths}
      \cup UNION {[1..n -> StereoFrames] : n \in StereoLengths}
      \cup {Silence}

SampleRates == {1200, 8000, 16000}

Requests == {"no file", "undecodable", "decoded"}

NoResult ==
    [score |-> 0, note |-> "", humpbackScore |-> 0, orcaScore |-> 0,
     boatPenalty |-> 0, isBoat |-> FALSE]

NoResponse == [status |-> 0, error |-> ""]

----------------------------------------------------------------------------
(* Calls *)

\* a call of compute_environmental_score on a feature vector
Init ==
    /\ waveform = <<>>
    /\ sr = 0
    /\ features \in FeatureVectors
    /\ error = ""
    /\ result = NoResult
    /\ response = NoResponse
    /\ pc = "features"

\* a call of analyze_audio_features, or a request to /analyze, on an array
InitAudio ==
    /\ waveform \in Waveforms
    /\ sr \in SampleRates
    /\ features = NoFeatures
    /\ error = ""
    /\ result = NoResult
    /\ response = NoResponse
    /\ pc = "audio"

Score ==
    /\ pc = "features"
    /\ result' = compute_environmental_score(features)
    /\ pc' = "scored"
    /\ UNCHANGED <<waveform, sr, features, error, response>>

Extract ==
    /\ pc = "audio"
    /\ \E flat \in flatness_outcomes(waveform) :
         LET out == analyze_audio_features(waveform, sr, flat)
         IN  /\ features' = out.features
             /\ error' = out.error
             /\ pc' = IF out.raised THEN "raised" ELSE "features"
    /\ UNCHANGED <<waveform, sr, result, response>>

\* POST /analyze
analyze ==
    /\ pc = "audio"
    /\ \E req \in Requests :
         \/ /\ req = "no file"
            /\ response' = [status |-> 400, error |-> "no file"]
            /\ UNCHANGED <<features, result>>
         \/ /\ req = "undecodable"
            /\ response' = [status |-> 400, error |-> "cannot decode audio"]
            /\ UNCHANGED <<features, result>>
         \/ /\ req = "decoded"
            /\ Len(waveform) = 0
            /\ response' = [status |-> 400, error |-> "empty audio"]
            /\ UNCHANGED <<features, result>>
         \/ /\ req = "decoded"
            /\ Len(waveform) # 0
            /\ \E flat \in flatness_outcomes(waveform) :
                 LET out == analyze_audio_features(waveform, sr, flat)
                 IN  /\ features' = out.features
                     /\ result' = compute_environmental_score(out.features)
            /\ response' = [status |-> 200, error |-> ""]
    /\ pc' = "responded"
    /\ UNCHANGED <<waveform, sr, error>>

Next == Score

Spec == Init /\ [][Next]_vars

NextAudio == Extract \/ Score \/ analyze

AudioSpec == InitAudio /\ [][NextAudio]_vars

----------------------------------------------------------------------------
(* Properties *)

\* the pre-cap sum 50 + max(humpbackScore, orcaScore) + boatPenalty
Combined(r) == 50 + Max(r.humpbackScore, r.orcaScore) + r.boatPenalty

\* a feature vector has been returned by analyze_audio_features
Extracted ==
    \/ pc \in {"features", "scored"}
    \/ (pc = "responded" /\ response.status = 200)

\* the numerators of the three band ratios added up
RatioNumerators(f) == f.lowRatio.n + f.midRatio.n + f.highRatio.n

\* |lowRatio + midRatio + highRatio - 1.0| <= 1e-6, the ratios sharing the
\* denominator d
RatioSumNearOne(f) ==
    LET d == f.lowRatio.d
        s == RatioNumerators(f)
    IN  /\ f.midRatio.d = d /\ f.highRatio.d = d
        /\ s - d <= d \div 1000000
        /\ d - s <= d \div 1000000

IsZero(x) == x.n = 0

\* C1: whenever the scorer reports isBoat = true the score is at most 30,
\* and it is exactly 30 when the pre-cap sum is above 30.
C1_BoatCap ==
    (pc = "scored" /\ result.isBoat) =>
        /\ result.score <= 30
        /\ (Combined(result) > 30 => result.score = 30)

C1_Witness ==
    pc = "scored" /\ result.isBoat /\ Combined(result) > 30 /\ result.score = 30

\* C2: whenever the scorer reports isBoat = false the score is at most 95,
\* never 100, and it is exactly 95 when the pre-cap sum is above 95.
C2_MarineCap ==
    (pc = "scored" /\ ~result.isBoat) =>
        /\ result.score <= 95
        /\ result.score # 100
        /\ (Combined(result) > 95 => result.score = 95)

C2_Witness ==
    pc = "scored" /\ ~result.isBoat /\ Combined(result) > 95 /\ result.score = 95

\* C3: every feature vector, the all-zero one included, is scored, the score
\* is an integer between 0 and 100, and it is 0 when the sum is negative.
C3_ScoreRange ==
    pc = "scored" =>
        /\ result.score \in 0..100
        /\ (Combined(result) < 0 => result.score = 0)

C3_Witness ==
    pc = "scored" /\ Combined(result) < 0 /\ result.score = 0

\* C4: the humpback pattern score is at most 35 for every feature vector.
C4_HumpbackBound == pc = "scored" => result.humpbackScore <= 35

\* C5: the orca pattern score is at most 35 for every feature vector.
C5_OrcaBound == pc = "scored" => result.orcaScore <= 35

C7_RatiosSumToOne ==
    (Extracted /\ Len(waveform) > 0) => RatioSumNearOne(features)

\* C7 amended: every bin is in exactly one band, so the three ratios add up
\* to total / (total + 1e-12); this is within 1e-6 of 1.0 when the total
\* spectral energy is at least 1e-6, and it is 0 when the total is zero.
C7_RatiosPartition ==
    (Extracted /\ Len(waveform) > 0) =>
        LET d == features.lowRatio.d
        IN  /\ features.midRatio.d = d /\ features.highRatio.d = d
            /\ RatioNumerators(features) + EPS_ENERGY = d
            /\ (d - EPS_ENERGY >= 1000000 => RatioSumNearOne(features))
            /\ (d = EPS_ENERGY =>
                    /\ IsZero(features.lowRatio)
                    /\ IsZero(features.midRatio)
                    /\ IsZero(features.highRatio))

C7_Witness ==
    /\ pc = "features" /\ Len(waveform) > 0
    /\ features.lowRatio.d - EPS_ENERGY >= 1000000
    /\ ~IsZero(features.lowRatio) /\ ~IsZero(features.midRatio)
    /\ ~IsZero(features.highRatio)
    /\ RatioSumNearOne(features)

\* C8: the note is fixed by the final score alone: High exactly from 80,
\* Medium exactly from 40 to 79, Low exactly below 40; a boat result always
\* carries the Low note.
C8_NoteByScore ==
    pc = "scored" =>
        /\ (result.note = High <=> result.score >= 80)
        /\ (result.note = Medium <=> (result.score >= 40 /\ result.score < 80))
        /\ (result.note = Low <=> result.score < 40)
        /\ (result.isBoat => result.note = Low)

C8_Witness ==
    pc = "scored" /\ result.isBoat /\ Combined(result) >= 80 /\ result.note = Low

\* C9: 16384 samples of silence are extracted and scored without an error:
\* rms and centroid are 0, the band ratios and lowPeakiness are 0, and the
\* score is between 0 and 100.
C9_Silence ==
    waveform = Silence =>
        /\ pc # "raised" /\ error = ""
        /\ (Extracted =>
              /\ IsZero(features.rms) /\ IsZero(features.centroid)
              /\ IsZero(features.lowRatio) /\ IsZero(features.midRatio)
              /\ IsZero(features.highRatio) /\ IsZero(features.lowPeakiness))
        /\ (pc = "scored" => result.score \in 0..100)

C9_Witness ==
    waveform = Silence /\ pc = "scored" /\ result.score \in 0..100

\* C10: boatPenalty is 0 exactly when isBoat is false, at most -10 when
\* isBoat is true, never positive and never below -215.
C10_BoatPenalty ==
    pc = "scored" =>
        /\ (result.boatPenalty = 0 <=> ~result.isBoat)
        /\ (result.isBoat <=> is_boat(features))
        /\ (result.isBoat => result.boatPenalty <= -10)
        /\ result.boatPenalty <= 0
        /\ result.boatPenalty >= -215

C10_Witness ==
    pc = "scored" /\ result.isBoat /\ result.boatPenalty = -10

====
